---------------------------- MODULE Spec2Model ----------------------------
(***************************************************************************)
(* Model of go-depgraph (depgraph.go): a dependency graph with Add, the    *)
(* lazy resolution ResolveIter (an iter.Seq2 coroutine, split at its yield *)
(* points) and the eager Resolve built on top of it.                       *)
(*                                                                         *)
(* Element identities are the integers 1..NumNames; the zero value of T is *)
(* 0.  Slices are sequences; the code's 0-based index i is the sequence     *)
(* index i+1, and fcur, fmax keep their 0-based values.                     *)
(***************************************************************************)
EXTENDS Integers, Sequences, FiniteSets, TLC

\* ---- bounds -------------------------------------------------------------
NumNames == 3
MaxDeps == 3

Names == 1..NumNames
zero == 0

ErrNil == "nil"
ErrCircularDependency == "circular dependency"
ErrUnknownDependency == "unknown dependency"

VARIABLES
    edges,      \* dg.edges: sequence of edge records (identified by name)
    edgeMap,    \* dg.edgeMap: name -> deps set of the edge record
    pc,         \* position of the ResolveIter coroutine: idle / loop / yielded
    mode,       \* who consumes the running iterator: "Resolve" or "ResolveIter"
    fcur,       \* local cursor of the running resolution
    fmax,       \* local free-list boundary of the running resolution
    refcounts,  \* local refcounts map of the running resolution
    out,        \* pairs yielded by the current / latest run
    res,        \* Resolve's local result slice
    ret,        \* what the latest Resolve call returned
    done,       \* how the latest run ended: none / finished / cancelled
    order,      \* history: names in order of their first Add
    start       \* history: dg.edges at the moment the latest run began

vars == <<edges, edgeMap, pc, mode, fcur, fmax, refcounts, out, res, ret,
          done, order, start>>

\* ---- helpers ------------------------------------------------------------
Range(s) == {s[i] : i \in 1..Len(s)}

EmptyMap == [n \in {} |-> 0]

NoRet == [res |-> <<>>, isnil |-> TRUE, err |-> "none"]

Pair(el, err) == [el |-> el, err |-> err]

NumDeps(em) ==
    LET RECURSIVE Sum(_)
        Sum(S) == IF S = {} THEN 0
                  ELSE LET n == CHOOSE x \in S : TRUE
                       IN Cardinality(em[n]) + Sum(S \ {n})
    IN Sum(DOMAIN em)

\* edges[i] = edges[j] without the exchange
SwapOverwrite(es, i, j) == [es EXCEPT ![i + 1] = es[j + 1]]

\* edges[i], edges[j] = edges[j], edges[i]   (0-based i, j)
Swap(es, i, j) == [es EXCEPT ![i + 1] = es[j + 1], ![j + 1] = es[i + 1]]

\* validate() that returns nil as soon as one dependency of an edge is known
validateFirstKnown(em) ==
    IF \E n \in DOMAIN em :
          /\ em[n] # {}
          /\ \A dep \in em[n] : dep \notin DOMAIN em
    THEN ErrUnknownDependency
    ELSE ErrNil

\* validate(): some stored edge has a dependency that is not a key of edgeMap
validate(em) ==
    IF \E n \in DOMAIN em : \E dep \in em[n] : dep \notin DOMAIN em
    THEN ErrUnknownDependency
    ELSE ErrNil

\* refcounts that do not count an edge's dependency on itself
InitRefcountsNoSelf(es, em) == [n \in Range(es) |-> Cardinality(em[n] \ {n})]

\* refcounts[edge.name] = len(edge.deps) for every edge
InitRefcounts(es, em) == [n \in Range(es) |-> Cardinality(em[n])]

\* first promotion pass that takes an edge depending only on itself for free
RECURSIVE PromoteFreeSelf(_, _, _, _)
PromoteFreeSelf(es, em, i, fm) ==
    IF i >= Len(es) THEN [edges |-> es, fmax |-> fm]
    ELSE IF em[es[i + 1]] \subseteq {es[i + 1]}
         THEN PromoteFreeSelf(Swap(es, fm, i), em, i + 1, fm + 1)
         ELSE PromoteFreeSelf(es, em, i + 1, fm)

\* first promotion pass that grows the free region without the swap
RECURSIVE PromoteFreeNoSwap(_, _, _, _)
PromoteFreeNoSwap(es, em, i, fm) ==
    IF i >= Len(es) THEN [edges |-> es, fmax |-> fm]
    ELSE IF em[es[i + 1]] = {}
         THEN PromoteFreeNoSwap(es, em, i + 1, fm + 1)
         ELSE PromoteFreeNoSwap(es, em, i + 1, fm)

\* first promotion pass that puts each free edge at the front of the free
\* region instead of its end
RECURSIVE PromoteFreeFront(_, _, _, _)
PromoteFreeFront(es, em, i, fm) ==
    IF i >= Len(es) THEN [edges |-> es, fmax |-> fm]
    ELSE IF em[es[i + 1]] = {}
         THEN PromoteFreeFront(Swap(Swap(es, fm, i), 0, fm), em, i + 1, fm + 1)
         ELSE PromoteFreeFront(es, em, i + 1, fm)

\* The first promotion pass: for i, edge := range edges { if len(deps) == 0 ... }
RECURSIVE PromoteFree(_, _, _, _)
PromoteFree(es, em, i, fm) ==
    IF i >= Len(es) THEN [edges |-> es, fmax |-> fm]
    ELSE IF em[es[i + 1]] = {}
         THEN PromoteFree(Swap(es, fm, i), em, i + 1, fm + 1)
         ELSE PromoteFree(es, em, i + 1, fm)

\* scan that promotes an edge at its first cleared dependency
RECURSIVE ScanEager(_, _, _, _, _, _)
ScanEager(es, em, rc, fm, this, i) ==
    IF i >= Len(es) THEN [edges |-> es, refcounts |-> rc, fmax |-> fm, panic |-> FALSE]
    ELSE IF this \in em[es[i + 1]]
         THEN LET rc2 == [rc EXCEPT ![es[i + 1]] = @ - 1]
              IN IF fm >= Len(es)
                 THEN [edges |-> es, refcounts |-> rc2, fmax |-> fm, panic |-> TRUE]
                 ELSE ScanEager(Swap(es, fm, i), em, rc2, fm + 1, this, i + 1)
         ELSE ScanEager(es, em, rc, fm, this, i + 1)

\* scan that puts a freed edge right behind the cursor, ahead of the edges
\* that are already free
RECURSIVE ScanLifo(_, _, _, _, _, _)
ScanLifo(es, em, rc, fm, this, i) ==
    IF i >= Len(es) THEN [edges |-> es, refcounts |-> rc, fmax |-> fm, panic |-> FALSE]
    ELSE IF this \in em[es[i + 1]]
         THEN LET rc2 == [rc EXCEPT ![es[i + 1]] = @ - 1]
                  nxt == CHOOSE k \in 1..Len(es) : es[k] = this
              IN IF rc2[es[i + 1]] = 0
                 THEN IF fm >= Len(es)
                      THEN [edges |-> es, refcounts |-> rc2, fmax |-> fm, panic |-> TRUE]
                      ELSE ScanLifo(Swap(Swap(es, fm, i), nxt, fm), em, rc2,
                                    fm + 1, this, i + 1)
                 ELSE ScanLifo(es, em, rc2, fm, this, i + 1)
         ELSE ScanLifo(es, em, rc, fm, this, i + 1)

\* scan whose zero test sits outside the dependency test
RECURSIVE ScanZeroOutside(_, _, _, _, _, _)
ScanZeroOutside(es, em, rc, fm, this, i) ==
    IF i >= Len(es) THEN [edges |-> es, refcounts |-> rc, fmax |-> fm, panic |-> FALSE]
    ELSE LET rc2 == IF this \in em[es[i + 1]]
                    THEN [rc EXCEPT ![es[i + 1]] = @ - 1] ELSE rc
         IN IF rc2[es[i + 1]] = 0
            THEN IF fm >= Len(es)
                 THEN [edges |-> es, refcounts |-> rc2, fmax |-> fm, panic |-> TRUE]
                 ELSE ScanZeroOutside(Swap(es, fm, i), em, rc2, fm + 1, this, i + 1)
            ELSE ScanZeroOutside(es, em, rc2, fm, this, i + 1)

\* The scan after a yield: for i := fcur + 1; i < len(edges); i++ { ... }
RECURSIVE Scan(_, _, _, _, _, _)
Scan(es, em, rc, fm, this, i) ==
    IF i >= Len(es) THEN [edges |-> es, refcounts |-> rc, fmax |-> fm, panic |-> FALSE]
    ELSE IF this \in em[es[i + 1]]
         THEN LET rc2 == [rc EXCEPT ![es[i + 1]] = @ - 1]
              IN IF rc2[es[i + 1]] = 0
                 THEN IF fm >= Len(es)
                      THEN [edges |-> es, refcounts |-> rc2, fmax |-> fm, panic |-> TRUE]
                      ELSE Scan(Swap(es, fm, i), em, rc2, fm + 1, this, i + 1)
                 ELSE Scan(es, em, rc2, fm, this, i + 1)
         ELSE Scan(es, em, rc, fm, this, i + 1)

\* The pairs a ResolveIter run yields when its consumer never stops, from
\* the loop head with cursor fc.
RECURSIVE DrainFrom(_, _, _, _, _)
DrainFrom(es, em, rc, fm, fc) ==
    IF fc < fm
    THEN LET this == es[fc + 1]
             s == Scan(es, em, rc, fm, this, fc + 1)
         IN <<Pair(this, ErrNil)>> \o
            (IF s.panic THEN <<>>
             ELSE DrainFrom(s.edges, em, s.refcounts, s.fmax, fc + 1))
    ELSE IF fm # Len(es) THEN <<Pair(zero, ErrCircularDependency)>> ELSE <<>>

\* All pairs of a complete run over the store (es, em).
Drain(es, em) ==
    IF validate(em) # ErrNil THEN <<Pair(zero, ErrUnknownDependency)>>
    ELSE LET p == PromoteFree(es, em, 0, 0)
         IN DrainFrom(p.edges, em, InitRefcounts(es, em), p.fmax, 0)

Els(ps) == [i \in 1..Len(ps) |-> ps[i].el]

\* What Resolve() returns for a complete run that yielded the pairs ps.
Collect(ps) ==
    IF ps # <<>> /\ ps[Len(ps)].err # ErrNil
    THEN [res |-> <<>>, isnil |-> TRUE, err |-> ps[Len(ps)].err]
    ELSE [res |-> Els(ps), isnil |-> FALSE, err |-> ErrNil]

\* ---- initial state: NewDependencyGraph() --------------------------------
Init ==
    /\ edges = <<>>
    /\ edgeMap = EmptyMap
    /\ pc = "idle"
    /\ mode = "none"
    /\ fcur = 0
    /\ fmax = 0
    /\ refcounts = EmptyMap
    /\ out = <<>>
    /\ res = <<>>
    /\ ret = NoRet
    /\ done = "none"
    /\ order = <<>>
    /\ start = <<>>

\* ---- Add(name, deps...) -------------------------------------------------
\* Add that replaces the dependencies of an existing edge
AddEdgeMapReplace(em, name, deps) ==
    IF name \in DOMAIN em
    THEN [em EXCEPT ![name] = deps]
    ELSE em @@ (name :> deps)

AddEdgeMap(em, name, deps) ==
    IF name \in DOMAIN em
    THEN [em EXCEPT ![name] = @ \cup deps]
    ELSE em @@ (name :> deps)

AddEdges(es, em, name) ==
    IF name \in DOMAIN em THEN es ELSE Append(es, name)

\* The code uses identities only through equality and hashing, so every run
\* is, up to renaming, one in which the k-th new name is k: a new name is
\* taken to be the next unused integer.  Dependencies range over all Names,
\* so forward references and dependencies that are never added remain.
Add(name, deps) ==
    /\ pc = "idle"
    /\ name \in DOMAIN edgeMap \/ name = Len(edges) + 1
    /\ NumDeps(AddEdgeMap(edgeMap, name, deps)) <= MaxDeps
    /\ edgeMap' = AddEdgeMap(edgeMap, name, deps)
    /\ edges' = AddEdges(edges, edgeMap, name)
    /\ order' = IF name \in Range(order) THEN order ELSE Append(order, name)
    \* the observations of the previous run end with the mutation
    /\ mode' = "none" /\ out' = <<>> /\ res' = <<>> /\ ret' = NoRet
    /\ done' = "none" /\ start' = <<>>
    /\ UNCHANGED <<pc, fcur, fmax, refcounts>>

\* ResolveIter without the return after the validation error pair
BeginNoReturn(m) ==
    /\ pc = "idle"
    /\ mode' = m
    /\ start' = edges
    /\ res' = <<>>
    /\ LET p == PromoteFree(edges, edgeMap, 0, 0)
       IN /\ edges' = p.edges
          /\ fmax' = p.fmax
          /\ fcur' = 0
          /\ refcounts' = InitRefcounts(edges, edgeMap)
          /\ out' = IF validate(edgeMap) # ErrNil
                    THEN <<Pair(zero, ErrUnknownDependency)>> ELSE <<>>
          /\ done' = "none"
          /\ ret' = NoRet
          /\ pc' = "loop"
    /\ UNCHANGED <<edgeMap, order>>

\* ---- ResolveIter: from the call of the iterator to its first yield point -
Begin(m) ==
    /\ pc = "idle"
    /\ mode' = m
    /\ start' = edges
    /\ res' = <<>>
    /\ IF validate(edgeMap) # ErrNil
       THEN /\ out' = <<Pair(zero, ErrUnknownDependency)>>
            /\ done' = "finished"
            /\ ret' = IF m = "Resolve"
                      THEN [res |-> <<>>, isnil |-> TRUE, err |-> ErrUnknownDependency]
                      ELSE NoRet
            /\ UNCHANGED <<edges, pc, fcur, fmax, refcounts>>
       ELSE LET p == PromoteFree(edges, edgeMap, 0, 0)
            IN /\ edges' = p.edges
               /\ fmax' = p.fmax
               /\ fcur' = 0
               /\ refcounts' = InitRefcounts(edges, edgeMap)
               /\ out' = <<>>
               /\ done' = "none"
               /\ ret' = NoRet
               /\ pc' = "loop"
    /\ UNCHANGED <<edgeMap, order>>

ResolveIter == Begin("ResolveIter")

Resolve == Begin("Resolve")

\* for fcur < fmax: yield(this.name, nil)
Yield ==
    /\ pc = "loop"
    /\ fcur < fmax
    /\ out' = Append(out, Pair(edges[fcur + 1], ErrNil))
    /\ pc' = "yielded"
    /\ UNCHANGED <<edges, edgeMap, mode, fcur, fmax, refcounts, res, ret, done,
                   order, start>>

\* loop without the fcur++ of its post statement
ResumeNoAdvance ==
    /\ pc = "yielded"
    /\ LET this == edges[fcur + 1]
           s == Scan(edges, edgeMap, refcounts, fmax, this, fcur + 1)
       IN /\ edges' = s.edges
          /\ refcounts' = s.refcounts
          /\ fmax' = s.fmax
          /\ pc' = IF s.panic THEN "panic" ELSE "loop"
    /\ fcur' = fcur
    /\ res' = IF mode = "Resolve" THEN Append(res, out[Len(out)].el) ELSE res
    /\ UNCHANGED <<edgeMap, mode, out, ret, done, order, start>>

\* yield returned true: the consumer asked for the next pair; the scan runs
Resume ==
    /\ pc = "yielded"
    /\ LET this == edges[fcur + 1]
           s == Scan(edges, edgeMap, refcounts, fmax, this, fcur + 1)
       IN /\ edges' = s.edges
          /\ refcounts' = s.refcounts
          /\ fmax' = s.fmax
          /\ pc' = IF s.panic THEN "panic" ELSE "loop"
    /\ fcur' = fcur + 1
    /\ res' = IF mode = "Resolve" THEN Append(res, out[Len(out)].el) ELSE res
    /\ UNCHANGED <<edgeMap, mode, out, ret, done, order, start>>

\* cancellation that leaves the loop but still runs the final fmax check
CancelThenCheck ==
    /\ pc = "yielded"
    /\ mode = "ResolveIter"
    /\ pc' = "idle"
    /\ done' = "cancelled"
    /\ out' = IF fmax # Len(edges)
              THEN Append(out, Pair(zero, ErrCircularDependency)) ELSE out
    /\ fcur' = 0 /\ fmax' = 0 /\ refcounts' = EmptyMap
    /\ UNCHANGED <<edges, edgeMap, mode, res, ret, order, start>>

\* yield returned false: the consumer of ResolveIter broke out of its loop
Cancel ==
    /\ pc = "yielded"
    /\ mode = "ResolveIter"
    /\ pc' = "idle"
    /\ done' = "cancelled"
    /\ fcur' = 0 /\ fmax' = 0 /\ refcounts' = EmptyMap
    /\ UNCHANGED <<edges, edgeMap, mode, out, res, ret, order, start>>

\* end of the loop without the fmax check
FinishNoCheck ==
    /\ pc = "loop"
    /\ fcur >= fmax
    /\ ret' = IF mode = "Resolve"
              THEN [res |-> res, isnil |-> FALSE, err |-> ErrNil]
              ELSE NoRet
    /\ pc' = "idle"
    /\ done' = "finished"
    /\ fcur' = 0 /\ fmax' = 0 /\ refcounts' = EmptyMap
    /\ UNCHANGED <<edges, edgeMap, mode, out, res, order, start>>

\* end of the loop where Resolve hands back the collected prefix with the error
FinishPartial ==
    /\ pc = "loop"
    /\ fcur >= fmax
    /\ LET err == IF fmax # Len(edges) THEN ErrCircularDependency ELSE ErrNil
       IN /\ out' = IF err # ErrNil THEN Append(out, Pair(zero, err)) ELSE out
          /\ ret' = IF mode = "Resolve"
                    THEN [res |-> res, isnil |-> FALSE, err |-> err]
                    ELSE NoRet
    /\ pc' = "idle"
    /\ done' = "finished"
    /\ fcur' = 0 /\ fmax' = 0 /\ refcounts' = EmptyMap
    /\ UNCHANGED <<edges, edgeMap, mode, res, order, start>>

\* fcur reached fmax: if fmax != len(edges) { yield(zero, ErrCircularDependency) }
Finish ==
    /\ pc = "loop"
    /\ fcur >= fmax
    /\ LET err == IF fmax # Len(edges) THEN ErrCircularDependency ELSE ErrNil
       IN /\ out' = IF err # ErrNil THEN Append(out, Pair(zero, err)) ELSE out
          /\ ret' = IF mode = "Resolve"
                    THEN IF err # ErrNil
                         THEN [res |-> <<>>, isnil |-> TRUE, err |-> err]
                         ELSE [res |-> res, isnil |-> FALSE, err |-> ErrNil]
                    ELSE NoRet
    /\ pc' = "idle"
    /\ done' = "finished"
    /\ fcur' = 0 /\ fmax' = 0 /\ refcounts' = EmptyMap
    /\ UNCHANGED <<edges, edgeMap, mode, res, order, start>>

Next ==
    \/ \E name \in Names, deps \in SUBSET Names : Add(name, deps)
    \/ ResolveIter
    \/ Resolve
    \/ Yield
    \/ Resume
    \/ Cancel
    \/ Finish

Spec == Init /\ [][Next]_vars


\* ---- vocabulary of the properties ---------------------------------------
\* Resolve() has returned and the graph has not been changed since.
Returned == pc = "idle" /\ mode = "Resolve" /\ done = "finished"

\* A run (of either kind) has ended and the graph has not been changed since.
RunEnded == pc = "idle" /\ done \in {"finished", "cancelled"}

AllKnown == \A n \in DOMAIN edgeMap : edgeMap[n] \subseteq DOMAIN edgeMap

Pos(s, x) == CHOOSE i \in 1..Len(s) : s[i] = x

RECURSIVE ReachFrom(_, _)
ReachFrom(S, em) ==
    LET S2 == S \cup UNION {em[x] : x \in S \cap DOMAIN em}
    IN IF S2 = S THEN S ELSE ReachFrom(S2, em)

HasCycle(em) == \E n \in DOMAIN em : n \in ReachFrom(em[n], em)

\* ---- C1 -----------------------------------------------------------------
\* C1 (topological validity): whenever Resolve returns without error, every
\* dependency d of every stored element e occurs at a strictly smaller index
\* than e in the returned sequence.
C1_TopologicalValidity ==
    (Returned /\ ret.err = ErrNil) =>
        \A e \in DOMAIN edgeMap : \A d \in edgeMap[e] :
            \E i, j \in 1..Len(ret.res) :
                /\ i < j
                /\ ret.res[i] = d
                /\ ret.res[j] = e

\* a successful Resolve of a graph with a two-dependency element, on a store
\* that an earlier resolution has already reordered
C1_Witness ==
    /\ Returned /\ ret.err = ErrNil
    /\ \E e \in DOMAIN edgeMap : Cardinality(edgeMap[e]) >= 2
    /\ start # order

\* ---- C2 -----------------------------------------------------------------
\* C2 (totality): whenever Resolve returns without error, the returned
\* sequence holds every name ever added exactly once, so its length is the
\* number of distinct elements added.
C2_Totality ==
    (Returned /\ ret.err = ErrNil) =>
        /\ ~ret.isnil
        /\ Len(ret.res) = Len(order)
        /\ Range(ret.res) = Range(order)
        /\ Range(order) = DOMAIN edgeMap

C2_Witness ==
    /\ Returned /\ ret.err = ErrNil
    /\ Len(ret.res) = NumNames
    /\ NumDeps(edgeMap) >= 2

\* ---- C3 -----------------------------------------------------------------
\* C3 (cycle detection): for a graph whose dependencies are all known,
\* Resolve returns ErrCircularDependency with a nil result exactly when the
\* dependency relation has a cycle (a self-dependency included); an acyclic
\* graph resolves successfully.
C3_CycleDetection ==
    (Returned /\ AllKnown) =>
        /\ HasCycle(edgeMap) =>
              ret = [res |-> <<>>, isnil |-> TRUE, err |-> ErrCircularDependency]
        /\ ~HasCycle(edgeMap) => (ret.err = ErrNil /\ ~ret.isnil)

\* a self-dependency reported as a cycle, next to elements that were free
C3_Witness ==
    /\ Returned /\ AllKnown
    /\ \E n \in DOMAIN edgeMap : n \in edgeMap[n]
    /\ \E n \in DOMAIN edgeMap : edgeMap[n] = {}
    /\ ret.err = ErrCircularDependency

\* ---- C4 -----------------------------------------------------------------
\* C4 (unknown dependency): if a stored element has a dependency that was
\* never added, the run yields exactly one pair (zero, ErrUnknownDependency),
\* Resolve returns nil with that error, no ordering work is done (the
\* iterator never enters its loop and the stored edge sequence is as it was
\* when the run began), also when the graph has a cycle.
C4_UnknownDependency ==
    ~AllKnown =>
        /\ pc = "idle"
        /\ (done # "none") =>
              /\ done = "finished"
              /\ out = <<Pair(zero, ErrUnknownDependency)>>
              /\ res = <<>>
              /\ edges = start
              /\ (mode = "Resolve") =>
                    ret = [res |-> <<>>, isnil |-> TRUE, err |-> ErrUnknownDependency]

\* an unknown dependency and a cycle in the same graph
C4_Witness ==
    /\ ~AllKnown /\ HasCycle(edgeMap)
    /\ Returned
    /\ out = <<Pair(zero, ErrUnknownDependency)>>

\* ---- C5 -----------------------------------------------------------------
\* C5 (cancellation safety): a consumer of ResolveIter that stops after k
\* elements has received only pairs with a nil error, and they are the first
\* k pairs of a complete iteration over the same store; no
\* ErrCircularDependency pair reaches it, cycle or not.
C5_CancellationSafety ==
    (pc = "idle" /\ done = "cancelled") =>
        /\ Len(out) >= 1
        /\ \A i \in 1..Len(out) : out[i].err = ErrNil
        /\ Len(out) <= Len(Drain(start, edgeMap))
        /\ out = SubSeq(Drain(start, edgeMap), 1, Len(out))

\* cancelled after the last element the algorithm could free, with a cycle in
\* the unconsumed remainder
C5_Witness ==
    /\ pc = "idle" /\ done = "cancelled"
    /\ HasCycle(edgeMap)
    /\ Len(out) + 1 = Len(Drain(start, edgeMap))
    /\ Len(out) >= 1

\* ---- C6 -----------------------------------------------------------------
\* C6 (re-resolution reflects only the current graph): the result of a
\* Resolve is the result of resolving a graph built by the same Add calls
\* with no resolution in between, whose edge sequence is the order of first
\* Add.
C6_ResultFromAddsAlone ==
    Returned => ret = Collect(Drain(order, edgeMap))

\* ---- C7 -----------------------------------------------------------------
\* C7 (resolution leaves the store unchanged): after a run has ended the
\* stored edge sequence still lists the elements in order of their first
\* Add.
C7_StoreUnchanged ==
    RunEnded => edges = order

\* ---- C8 -----------------------------------------------------------------
\* The elements with an empty dependency set, in order of their first Add.
ZeroDeps == SelectSeq(order, LAMBDA n : edgeMap[n] = {})

\* C8 (zero-dependency elements first): a resolution of a graph with all
\* dependencies known yields the elements without dependencies first, in the
\* order of their first Add, before any element that has dependencies.
C8_ZeroDepsFirst ==
    (AllKnown /\ (RunEnded \/ pc \in {"loop", "yielded"})) =>
        /\ \A i \in 1..Len(out) :
              i <= Len(ZeroDeps) => out[i] = Pair(ZeroDeps[i], ErrNil)
        /\ (pc = "idle" /\ done = "finished") => Len(out) >= Len(ZeroDeps)
        /\ (Returned /\ NumDeps(edgeMap) = 0) =>
              ret = [res |-> order, isnil |-> FALSE, err |-> ErrNil]

\* two zero-dependency elements added after an element with dependencies, on
\* a store that an earlier resolution has reordered
C8_Witness ==
    /\ AllKnown /\ pc = "idle" /\ done = "finished"
    /\ Len(ZeroDeps) >= 2
    /\ edgeMap[order[1]] # {}
    /\ start # order
    /\ Len(out) = NumNames

\* ---- C9 -----------------------------------------------------------------
\* The step at which x becomes free: the index in the output of its last
\* produced dependency.
FreedAt(ps, x) ==
    CHOOSE k \in 1..Len(ps) :
        /\ ps[k].el \in edgeMap[x]
        /\ \A d \in edgeMap[x] : \E j \in 1..k : ps[j].el = d

Yielded(ps) == {ps[i].el : i \in {j \in 1..Len(ps) : ps[j].err = ErrNil}}

\* C9 (stable ordering of simultaneously freed elements): two elements that
\* become free at the same step are output in the order of their first Add.
C9_StableAmongFreedTogether ==
    (AllKnown /\ pc = "idle" /\ done = "finished") =>
        \A x, y \in Yielded(out) :
            ( /\ edgeMap[x] # {} /\ edgeMap[y] # {}
              /\ FreedAt(out, x) = FreedAt(out, y)
              /\ Pos(order, x) < Pos(order, y) )
            => Pos(Els(out), x) < Pos(Els(out), y)

\* ---- C10 ----------------------------------------------------------------
\* C10 (shape of the lazy sequence): a run yields nil-error pairs carrying
\* distinct stored elements, then nothing or exactly one error pair carrying
\* the zero value; nothing follows an error pair.
C10_SequenceShape ==
    \A i \in 1..Len(out) :
          \/ /\ out[i].err = ErrNil
             /\ out[i].el \in DOMAIN edgeMap
             /\ \A j \in 1..Len(out) : out[j] = out[i] => j = i
          \/ /\ out[i].err \in {ErrUnknownDependency, ErrCircularDependency}
             /\ out[i].el = zero
             /\ i = Len(out)
             /\ pc = "idle" /\ done = "finished"

\* a completed run that yielded an element and then the error pair
C10_Witness ==
    /\ pc = "idle" /\ done = "finished" /\ mode = "ResolveIter"
    /\ Len(out) >= 2
    /\ out[1].err = ErrNil
    /\ out[Len(out)] = Pair(zero, ErrCircularDependency)

\* ---- C11 ----------------------------------------------------------------
\* C11 (eager and lazy paths agree): a completed run has yielded exactly the
\* pairs of the complete lazy iteration over the store it started from, and
\* Resolve returns the elements of those pairs with a nil error when no
\* error pair is among them, and otherwise nil (no prefix) with the error of
\* the final pair.
C11_EagerLazyAgree ==
    (pc = "idle" /\ done = "finished") =>
        /\ out = Drain(start, edgeMap)
        /\ (mode = "Resolve") =>
              /\ ret = Collect(Drain(start, edgeMap))
              /\ (ret.err = ErrNil) <=>
                    (\A i \in 1..Len(out) : out[i].err = ErrNil)
              /\ (ret.err = ErrNil) => (ret.res = Els(out) /\ ~ret.isnil)
              /\ (ret.err # ErrNil) =>
                    /\ ret.res = <<>> /\ ret.isnil
                    /\ ret.err = out[Len(out)].err

\* Resolve returned nil with the cycle error although elements were yielded
C11_Witness ==
    /\ Returned
    /\ Len(out) >= 3
    /\ res # <<>>
    /\ ret = [res |-> <<>>, isnil |-> TRUE, err |-> ErrCircularDependency]

\* ---- C12 ----------------------------------------------------------------
\* A graph that is built by Add calls alone and then resolved by Resolve.
\* Every call passes at most one dependency, so that an element with two
\* dependencies has been the subject of several calls.
AddOne ==
    \E name \in Names : \E deps \in {S \in SUBSET Names : Cardinality(S) <= 1} :
        /\ mode = "none"
        /\ Add(name, deps)

NextAdd ==
    \/ AddOne
    \/ Resolve
    \/ Yield
    \/ Resume
    \/ Finish

SpecAdd == Init /\ [][NextAdd]_vars

\* C12 (Add is a set union at a fixed position): every Add(x, deps) step
\* leaves x with its former dependencies united with deps and every other
\* element as it was; a new x is appended to the edge sequence and a known x
\* is not moved, so that the sequence is the order of first Adds.  Hence
\* repeating the call changes nothing, a later Add(x, b) gives the very store
\* of one Add(x, deps \cup b) made in place of the first call, and Resolve
\* returns what the order of first Adds and the united sets determine.
C12_AddUnionFixedPosition ==
    [][ /\ \A name \in Names : \A deps \in SUBSET Names :
            Add(name, deps) =>
              LET former == IF name \in DOMAIN edgeMap THEN edgeMap[name] ELSE {}
              IN /\ DOMAIN edgeMap' = DOMAIN edgeMap \cup {name}
                 /\ edgeMap'[name] = former \cup deps
                 /\ \A n \in DOMAIN edgeMap \ {name} : edgeMap'[n] = edgeMap[n]
                 /\ edges' = IF name \in DOMAIN edgeMap THEN edges
                             ELSE Append(edges, name)
                 /\ edges' = order'
                 /\ AddEdgeMap(edgeMap', name, deps) = edgeMap'
                 /\ AddEdges(edges', edgeMap', name) = edges'
                 /\ \A b \in SUBSET Names :
                       /\ AddEdgeMap(edgeMap', name, b)
                             = AddEdgeMap(edgeMap, name, deps \cup b)
                       /\ AddEdges(edges', edgeMap', name)
                             = AddEdges(edges, edgeMap, name)
        /\ Returned' => ret' = Collect(Drain(order', edgeMap'))
      ]_vars

\* Element 1 got its two dependencies in two calls (a call passes at most
\* one), the second on the already stored element; it kept its first
\* position and the graph resolved accordingly.
C12_Witness ==
    /\ Returned
    /\ order = <<1, 2, 3>>
    /\ edgeMap[1] = {2, 3}
    /\ ret = [res |-> <<2, 3, 1>>, isnil |-> FALSE, err |-> ErrNil]

\* ---- C13 ----------------------------------------------------------------
\* The step at which x is free: 0 without dependencies, else the index in
\* the output of its last produced dependency.
FreeStep(ps, x) == IF edgeMap[x] = {} THEN 0 ELSE FreedAt(ps, x)

\* C13 (FIFO promotion): in a resolution of a graph with all dependencies
\* known, an element whose last dependency was produced at an earlier step
\* than the last dependency of a produced element y (elements without
\* dependencies being free before the first step) has been produced before y.
C13_FifoPromotion ==
    (AllKnown /\ (RunEnded \/ pc \in {"loop", "yielded"})) =>
        \A y \in Yielded(out) : \A x \in DOMAIN edgeMap :
            ( /\ edgeMap[x] \subseteq Yielded(out)
              /\ FreeStep(out, x) < FreeStep(out, y) )
            => ( /\ x \in Yielded(out)
                 /\ Pos(Els(out), x) < Pos(Els(out), y) )

\* element 3 was freed when element 1, at the cursor, was produced; element 2
\* was free already and not yet produced, and 3 was placed behind it
C13_Witness ==
    /\ AllKnown /\ pc = "idle" /\ done = "finished"
    /\ order = <<1, 2, 3>>
    /\ edgeMap[1] = {} /\ edgeMap[2] = {} /\ edgeMap[3] = {1}
    /\ FreeStep(out, 2) < FreeStep(out, 3)
    /\ Els(out) = <<1, 2, 3>>

\* ---- C14 ----------------------------------------------------------------
\* The elements that neither lie on a cycle nor depend, directly or
\* transitively, on an element of a cycle.
CycleFree(em) ==
    {n \in DOMAIN em :
        \A m \in ReachFrom({n}, em) : m \notin ReachFrom(em[m], em)}

\* C14 (prefix produced on a cyclic graph): a completed run over a graph
\* with all dependencies known and a cycle yields exactly the elements that
\* are neither on a cycle nor dependent on one, each once and after all of
\* its dependencies, and then the single ErrCircularDependency pair.
C14_PrefixOnCycle ==
    (pc = "idle" /\ done = "finished" /\ AllKnown /\ HasCycle(edgeMap)) =>
        /\ out # <<>>
        /\ out[Len(out)] = Pair(zero, ErrCircularDependency)
        /\ \A i \in 1..(Len(out) - 1) : out[i].err = ErrNil
        /\ Yielded(out) = CycleFree(edgeMap)
        /\ Len(out) - 1 = Cardinality(CycleFree(edgeMap))
        /\ \A e \in Yielded(out) : \A d \in edgeMap[e] :
              /\ d \in Yielded(out)
              /\ Pos(Els(out), d) < Pos(Els(out), e)

\* a free element and one depending on it were yielded before the error
\* pair; the third element depends on itself
C14_Witness ==
    /\ pc = "idle" /\ done = "finished" /\ AllKnown /\ HasCycle(edgeMap)
    /\ Len(out) = 3
    /\ \E e \in Yielded(out) : edgeMap[e] # {}
    /\ out[3] = Pair(zero, ErrCircularDependency)

\* ---- C15 ----------------------------------------------------------------
\* C15 (store consistency): in every state, also between two yields and
\* after a cancelled or failed run, the stored edge sequence holds exactly
\* the edge records of the lookup map, each identity once.
C15_StoreConsistency ==
    /\ Range(edges) = DOMAIN edgeMap
    /\ Len(edges) = Cardinality(DOMAIN edgeMap)
    /\ \A i, j \in 1..Len(edges) : edges[i] = edges[j] => i = j

\* between two yields of a run whose promotion swaps have permuted the
\* store, on a graph that an earlier run had already reordered
C15_Witness ==
    /\ pc = "yielded"
    /\ fcur >= 1
    /\ edges # start
    /\ start # order
    /\ Len(edges) = NumNames

\* ---- C16 ----------------------------------------------------------------
\* C16 (loop invariants): at every yield of the element at index fcur,
\* 0 <= fcur < fmax <= len(edges); no refcount is negative; the refcount of
\* an element is the number of its dependencies not among the elements at
\* indices 0..fcur-1; the elements at indices [0, fmax) are those with
\* refcount 0; and the scan that follows promotes only at indices >= fmax
\* (it leaves the indices below fmax alone) and never indexes out of range.
C16_LoopInvariants ==
    /\ pc # "panic"
    /\ \A n \in DOMAIN refcounts : refcounts[n] >= 0
    /\ (pc = "yielded") =>
          /\ 0 <= fcur /\ fcur < fmax /\ fmax <= Len(edges)
          /\ DOMAIN refcounts = DOMAIN edgeMap
          /\ \A n \in DOMAIN edgeMap :
                refcounts[n] =
                    Cardinality(edgeMap[n] \ {edges[k] : k \in 1..fcur})
          /\ {edges[k] : k \in 1..fmax}
                = {n \in DOMAIN edgeMap : refcounts[n] = 0}
          /\ LET s == Scan(edges, edgeMap, refcounts, fmax, edges[fcur + 1],
                           fcur + 1)
             IN /\ ~s.panic
                /\ s.fmax >= fmax /\ s.fmax <= Len(edges)
                /\ \A k \in 1..fmax : s.edges[k] = edges[k]
                /\ \A n \in DOMAIN edgeMap : s.refcounts[n] >= 0

\* the yield before the scan that promotes the last element, which has two
\* dependencies and a refcount of 1 left
C16_Witness ==
    /\ pc = "yielded"
    /\ fcur = 1
    /\ fmax = Len(edges) - 1
    /\ \E n \in DOMAIN edgeMap :
          /\ Cardinality(edgeMap[n]) = 2
          /\ refcounts[n] = 1
          /\ edges[fcur + 1] \in edgeMap[n]

\* ---- C17 ----------------------------------------------------------------
\* C17 (Resolve is idempotent without an intervening Add): a Resolve made
\* right after a Resolve returns what that one returned, and a Resolve made
\* right after a cancelled ResolveIter run returns the sequence that run
\* would have produced had it been driven to completion.
C17_ResolveIdempotent ==
    /\ Returned => Collect(Drain(edges, edgeMap)) = ret
    /\ (pc = "idle" /\ done = "cancelled") =>
          Collect(Drain(edges, edgeMap)) = Collect(Drain(start, edgeMap))

\* a run cancelled after its first element had already permuted the store;
\* the graph resolves to all its elements
C17_Witness ==
    /\ pc = "idle" /\ done = "cancelled"
    /\ Len(out) = 1
    /\ edges # start
    /\ Len(Drain(start, edgeMap)) = NumNames
    /\ Collect(Drain(start, edgeMap)).err = ErrNil
    /\ NumDeps(edgeMap) >= 2

\* ---- C18 ----------------------------------------------------------------
\* The iterator and a consumer that keeps pulling are sequential code that
\* runs on: a started run takes its next step.
SpecLive ==
    /\ Spec
    /\ WF_vars(Yield)
    /\ WF_vars(Resume)
    /\ WF_vars(Finish)

\* C18 (termination): a run yields at most n element pairs and at most one
\* error pair (n = number of stored elements), the cursor is bounded by
\* fmax <= n and grows by one with every resumption, and every run that has
\* begun ends, so that Resolve returns.
C18_Termination ==
    /\ [](/\ Len(out) <= Len(edges) + 1
          /\ Cardinality({i \in 1..Len(out) : out[i].err = ErrNil}) <= Len(edges)
          /\ Cardinality({i \in 1..Len(out) : out[i].err # ErrNil}) <= 1
          /\ fcur <= fmax /\ fmax <= Len(edges))
    /\ [][(pc = "yielded" /\ pc' # "yielded") =>
             (pc' = "idle" \/ fcur' = fcur + 1)]_vars
    /\ (pc # "idle") ~> (pc = "idle")
    /\ (pc # "idle" /\ mode = "Resolve") ~> Returned

\* Resolve returned after a run of n element pairs and n resumptions
C18_Witness ==
    /\ Returned
    /\ Len(out) = NumNames
    /\ Len(edges) = NumNames
    /\ out[Len(out)].err = ErrNil
    /\ NumDeps(edgeMap) >= 2

=============================================================================
